---- MODULE Spec2Model ----
(***************************************************************************)
(* A model of ueberzug's line codecs (ueberzug/parser.py) and of its       *)
(* daemon thread pool (ueberzug/thread.py).                                *)
(*                                                                         *)
(* A Python str is a sequence of code points (naturals); a dict is the     *)
(* sequence of its <<key, value>> items in insertion order; a call either  *)
(* returns [kind |-> "ok", val |-> v] or raises, which is a record whose   *)
(* kind is the exception class and whose msg is str(exception).            *)
(***************************************************************************)
EXTENDS Integers, Sequences, FiniteSets, TLC

(***************************************************************************)
(* Characters and strings                                                  *)
(***************************************************************************)

\* The printable ASCII characters, code points 32 .. 126 in order (the grave
\* accent, code point 96, is spelled out: see Backtick).
Ascii ==
  <<" ", "!", "\"", "#", "$", "%", "&", "'", "(", ")", "*", "+", ",", "-",
    ".", "/", "0", "1", "2", "3", "4", "5", "6", "7", "8", "9", ":", ";",
    "<", "=", ">", "?", "@", "A", "B", "C", "D", "E", "F", "G", "H", "I",
    "J", "K", "L", "M", "N", "O", "P", "Q", "R", "S", "T", "U", "V", "W",
    "X", "Y", "Z", "[", "\\", "]", "^", "_", "BACKTICK", "a", "b", "c", "d", "e",
    "f", "g", "h", "i", "j", "k", "l", "m", "n", "o", "p", "q", "r", "s",
    "t", "u", "v", "w", "x", "y", "z", "{", "|", "}", "~">>

\* ord(c) of a one-character string.
Ord(c) ==
  IF c = "\t" THEN 9
  ELSE IF c = "\n" THEN 10
  ELSE 31 + (CHOOSE i \in 1..Len(Ascii) : Ascii[i] = c)

\* The grave accent.
Backtick == Ord("BACKTICK")

\* The str whose characters are the one-character strings of the tuple t.
Str(t) == [i \in 1..Len(t) |-> Ord(t[i])]

Ok(v) == [kind |-> "ok", val |-> v]
Raise(kind, msg) == [kind |-> kind, msg |-> msg]

InRange(c, lo, hi) == Ord(lo) <= c /\ c <= Ord(hi)
IsDigit(c) == InRange(c, "0", "9")
IsHexDigit(c) == IsDigit(c) \/ InRange(c, "A", "F") \/ InRange(c, "a", "f")
IsAlpha(c) == InRange(c, "A", "Z") \/ InRange(c, "a", "z")

\* int(c, 16) of one hexadecimal digit.
DigitValue(c) ==
  IF IsDigit(c) THEN c - Ord("0")
  ELSE IF InRange(c, "A", "F") THEN c - Ord("A") + 10
  ELSE c - Ord("a") + 10

\* The concatenation of a sequence of strings.
RECURSIVE Concat(_)
Concat(ss) == IF ss = <<>> THEN <<>> ELSE Head(ss) \o Concat(Tail(ss))

\* sep.join(ss)
RECURSIVE Join(_, _)
Join(sep, ss) ==
  IF ss = <<>> THEN <<>>
  ELSE IF Len(ss) = 1 THEN ss[1]
  ELSE ss[1] \o sep \o Join(sep, Tail(ss))

\* s[a:b] for 0 <= a, with b counted from the end when negative.
Slice(s, a, b) ==
  LET hi == IF b < 0 THEN Len(s) + b ELSE b
  IN  IF a + 1 > hi THEN <<>> ELSE SubSeq(s, a + 1, hi)

\* needle in haystack (substring test).
Contains(haystack, needle) ==
  \E i \in 0..(Len(haystack) - Len(needle)) :
    \A j \in 1..Len(needle) : haystack[i + j] = needle[j]

(***************************************************************************)
(* dict                                                                    *)
(***************************************************************************)

DictKeys(d) == {d[i][1] : i \in 1..Len(d)}

\* d[key] = value: an existing key keeps its position.
DictSet(d, key, value) ==
  IF key \in DictKeys(d)
  THEN [i \in 1..Len(d) |-> IF d[i][1] = key THEN <<key, value>> ELSE d[i]]
  ELSE Append(d, <<key, value>>)

\* dict(items): later items overwrite earlier ones.
RECURSIVE DictFrom(_, _)
DictFrom(items, d) ==
  IF items = <<>> THEN d
  ELSE DictFrom(Tail(items), DictSet(d, Head(items)[1], Head(items)[2]))

\* d[key] for a key of d.
DictGet(d, key) == d[CHOOSE i \in 1..Len(d) : d[i][1] = key][2]

\* d1 == d2 on dicts: the same items, in any order.
DictEq(d1, d2) ==
  /\ Len(d1) = Len(d2)
  /\ {d1[i] : i \in 1..Len(d1)} = {d2[i] : i \in 1..Len(d2)}

(***************************************************************************)
(* shlex.shlex(line), non-POSIX mode                                       *)
(***************************************************************************)

IsWordChar(c) == IsAlpha(c) \/ IsDigit(c) \/ c = Ord("_")
IsWhitespace(c) == c \in {Ord(" "), Ord("\t"), 13, Ord("\n")}
IsQuote(c) == c \in {Ord("'"), Ord("\"")}
IsCommenter(c) == c = Ord("#")

\* instream.readline() from position i: the position after the next newline.
RECURSIVE SkipLine(_, _)
SkipLine(s, i) ==
  IF i > Len(s) THEN i
  ELSE IF s[i] = Ord("\n") THEN i + 1
  ELSE SkipLine(s, i + 1)

\* read_token in state q (inside a quotation opened by q).
RECURSIVE ReadQuoted(_, _, _, _)
ReadQuoted(s, i, q, tok) ==
  IF i > Len(s) THEN Raise("ValueError", Str(<<"N", "o", " ", "c", "l", "o",
      "s", "i", "n", "g", " ", "q", "u", "o", "t", "a", "t", "i", "o", "n">>))
  ELSE IF s[i] = q THEN [kind |-> "ok", tok |-> Append(tok, q), next |-> i + 1]
  ELSE ReadQuoted(s, i + 1, q, Append(tok, s[i]))

\* read_token in state 'a' (inside a word).
RECURSIVE ReadWord(_, _, _)
ReadWord(s, i, tok) ==
  IF i > Len(s) THEN [kind |-> "ok", tok |-> tok, next |-> i]
  ELSE IF IsWhitespace(s[i]) THEN [kind |-> "ok", tok |-> tok, next |-> i + 1]
  ELSE IF IsCommenter(s[i]) THEN ReadWord(s, SkipLine(s, i + 1), tok)
  ELSE IF IsWordChar(s[i]) \/ IsQuote(s[i])
    THEN ReadWord(s, i + 1, Append(tok, s[i]))
  \* any other character is pushed back and comes out as the next token
  ELSE [kind |-> "ok", tok |-> tok, next |-> i]

\* read_token in state ' ' (between tokens); the token '' is end of input.
RECURSIVE ReadToken(_, _)
ReadToken(s, i) ==
  IF i > Len(s) THEN [kind |-> "ok", tok |-> <<>>, next |-> i]
  ELSE IF IsWhitespace(s[i]) THEN ReadToken(s, i + 1)
  ELSE IF IsCommenter(s[i]) THEN ReadToken(s, SkipLine(s, i + 1))
  ELSE IF IsWordChar(s[i]) THEN ReadWord(s, i + 1, <<s[i]>>)
  ELSE IF IsQuote(s[i]) THEN ReadQuoted(s, i + 1, s[i], <<s[i]>>)
  ELSE [kind |-> "ok", tok |-> <<s[i]>>, next |-> i + 1]

RECURSIVE Tokens(_, _)

\* The tokens from the token r that read_token returned on.
TokensAfter(s, r) ==
  IF r.kind # "ok" THEN [toks |-> <<>>, tail |-> "noclose", err |-> r]
  ELSE IF r.tok = <<>> THEN [toks |-> <<>>, tail |-> "eof", err |-> r]
  ELSE [Tokens(s, r.next) EXCEPT !.toks = <<r.tok>> \o @]

\* The tokens get_token() yields from position i on, up to end of input
\* (tail "eof") or up to the token whose quotation never closes (tail
\* "noclose").
Tokens(s, i) == TokensAfter(s, ReadToken(s, i))

\* The k-th call of lexer.get_token(): a token, '' (lexer.eof) at and after
\* end of input, or shlex's ValueError.
GetToken(lx, k) ==
  IF k <= Len(lx.toks) THEN Ok(lx.toks[k])
  ELSE IF lx.tail = "eof" THEN Ok(<<>>)
  ELSE lx.err

(***************************************************************************)
(* BashParser                                                              *)
(***************************************************************************)

\* int(digits, base) of a digit string that is valid in that base, or -1
\* once the value no longer fits a C int (it is 2^31 or more).
RECURSIVE IntOf(_, _, _)
IntOf(digits, base, acc) ==
  IF digits = <<>> THEN acc
  ELSE IF acc < 0 \/ acc > (2147483647 - DigitValue(Head(digits))) \div base
    THEN -1
  ELSE IntOf(Tail(digits), base, acc * base + DigitValue(Head(digits)))

\* chr(n): ValueError from 0x110000 on, OverflowError past a C int.
Chr(n) ==
  IF n < 0 THEN Raise("OverflowError", Str(<<"P", "y", "t", "h", "o",
      "n", " ", "i", "n", "t", " ", "t", "o", "o", " ", "l", "a", "r", "g",
      "e", " ", "t", "o", " ", "c", "o", "n", "v", "e", "r", "t", " ", "t",
      "o", " ", "C", " ", "i", "n", "t">>))
  ELSE IF n >= 1114112 THEN Raise("ValueError", Str(<<"c", "h", "r", "(",
      ")", " ", "a", "r", "g", " ", "n", "o", "t", " ", "i", "n", " ", "r",
      "a", "n", "g", "e", "(", "0", "x", "1", "1", "0", "0", "0", "0", ")">>))
  ELSE Ok(<<n>>)

\* int(digits, base=8): ValueError for a digit 8 or 9.
IntBase8(digits) ==
  IF \E i \in 1..Len(digits) : digits[i] > Ord("7")
  THEN Raise("ValueError", Str(<<"i", "n", "v", "a", "l", "i", "d", " ",
         "l", "i", "t", "e", "r", "a", "l", " ", "f", "o", "r", " ", "i",
         "n", "t", "(", ")", " ", "w", "i", "t", "h", " ", "b", "a", "s",
         "e", " ", "8", ":", " ", "'">>) \o digits \o Str(<<"'">>))
  ELSE Chr(IntOf(digits, 8, 0))

\* lambda m: chr(int(m[1:], base=8)) on a match of \\[0-9]{1,3}
OctalRepl(m) == IntBase8(Slice(m, 1, Len(m)))

\* lambda m: chr(int(m[2:], base=16)) on a match of \\x.., \\u.. or \\U..
HexRepl(m) == Chr(IntOf(Slice(m, 2, Len(m)), 16, 0))

\* str.upper() of one ASCII character.
Upper(c) == IF InRange(c, "a", "z") THEN c - 32 ELSE c

\* lambda m: "\x7F" if m[2:] == "?" else chr(ord(m[2:].upper()) & 0x1F)
CtrlRepl(m) == IF m[3] = Ord("?") THEN Ok(<<127>>) ELSE Chr(Upper(m[3]) % 32)

\* A pattern \\c of two characters with a literal replacement.
Lit(c, repl) == [pat |-> "lit", ch |-> c, max |-> 0, repl |-> <<repl>>]
\* A pattern \\[0-9]{1,max} or \\c[0-9A-Fa-f]{1,max}.
Num(pat, c, max) == [pat |-> pat, ch |-> c, max |-> max, repl |-> <<>>]

\* The table unquote gives multi_sub for a "..." token.
DoubleQuoteTable ==
  << Lit(Ord("\\"), Ord("\\")), Lit(Ord("\""), Ord("\"")),
     Lit(Ord("$"), Ord("$")), Lit(Backtick, Backtick) >>

\* The table unquote gives multi_sub for a $'...' token.
AnsiCTable ==
  << Lit(Ord("a"), 7), Lit(Ord("b"), 8), Lit(Ord("e"), 27), Lit(Ord("E"), 27),
     Lit(Ord("f"), 12), Lit(Ord("n"), 10), Lit(Ord("r"), 13), Lit(Ord("t"), 9),
     Lit(Ord("v"), 11), Lit(Ord("\\"), Ord("\\")), Lit(Ord("'"), Ord("'")),
     Lit(Ord("\""), Ord("\"")), Lit(Ord("?"), Ord("?")),
     Num("octal", 0, 3), Num("hex", Ord("x"), 2), Num("hex", Ord("u"), 4),
     Num("hex", Ord("U"), 8), Num("ctrl", Ord("c"), 1) >>

\* The length of the longest run of at most max characters of s from
\* position i on that are digits, hex digits when hex (a greedy {1,max}).
RECURSIVE RunLen(_, _, _, _)
RunLen(hex, s, i, max) ==
  IF max = 0 \/ i > Len(s) THEN 0
  ELSE IF ~(IF hex THEN IsHexDigit(s[i]) ELSE IsDigit(s[i])) THEN 0
  ELSE 1 + RunLen(hex, s, i + 1, max - 1)

\* The length of the match of pattern p at position i of s, 0 when it does
\* not match there.
MatchLen(p, s, i) ==
  IF s[i] # Ord("\\") \/ i + 1 > Len(s) THEN 0
  ELSE IF p.pat = "lit" THEN (IF s[i + 1] = p.ch THEN 2 ELSE 0)
  ELSE IF p.pat = "octal"
    THEN LET n == RunLen(FALSE, s, i + 1, p.max)
         IN  IF n = 0 THEN 0 ELSE 1 + n
  ELSE IF p.pat = "hex"
    THEN LET n == RunLen(TRUE, s, i + 2, p.max)
         IN  IF s[i + 1] # p.ch \/ n = 0 THEN 0 ELSE 2 + n
  ELSE \* "ctrl": \\c[\x01-\x7F]
    IF s[i + 1] = p.ch /\ i + 2 <= Len(s) /\ s[i + 2] \in 1..127 THEN 3 ELSE 0

\* repl(match) for the pattern that matched.
Replacement(p, m) ==
  IF p.pat = "lit" THEN Ok(p.repl)
  ELSE IF p.pat = "octal" THEN OctalRepl(m)
  ELSE IF p.pat = "hex" THEN HexRepl(m)
  ELSE CtrlRepl(m)

\* The first pattern from the p-th on that matches at position i of s, 0
\* when none does: the alternation tries the patterns in order.
RECURSIVE FirstMatch(_, _, _, _)
FirstMatch(patterns, s, i, p) ==
  IF p > Len(patterns) THEN 0
  ELSE IF MatchLen(patterns[p], s, i) > 0 THEN p
  ELSE FirstMatch(patterns, s, i, p + 1)

\* The result of a substitution that yields head and goes on with rest: an
\* exception raised for head or for rest ends it.
Then(head, rest) ==
  IF head.kind # "ok" THEN head
  ELSE IF rest.kind # "ok" THEN rest
  ELSE Ok(head.val \o rest.val)

RECURSIVE MultiSubFrom(_, _, _)

\* The match of pattern pat, n characters long, at position i.
SubMatch(s, patterns, i, pat, n) ==
  Then(Replacement(pat, SubSeq(s, i, i + n - 1)),
       MultiSubFrom(s, patterns, i + n))

\* Position i, where pattern p is the first that matches (none when 0).
SubAt(s, patterns, i, p) ==
  IF p = 0 THEN Then(Ok(<<s[i]>>), MultiSubFrom(s, patterns, i + 1))
  ELSE SubMatch(s, patterns, i, patterns[p], MatchLen(patterns[p], s, i))

\* re.sub over the alternation of the patterns, from position i on: at each
\* position the first pattern that matches is replaced, any other character
\* is copied; an exception of a replacement function ends the substitution.
MultiSubFrom(s, patterns, i) ==
  IF i > Len(s) THEN Ok(<<>>)
  ELSE SubAt(s, patterns, i, FirstMatch(patterns, s, i, 1))

multi_sub(s, patterns) == MultiSubFrom(s, patterns, 1)

\* unquote(s); s[0] of the empty string is an IndexError.
unquote(s) ==
  IF s = <<>> THEN Raise("IndexError", Str(<<"s", "t", "r", "i", "n", "g",
      " ", "i", "n", "d", "e", "x", " ", "o", "u", "t", " ", "o", "f", " ",
      "r", "a", "n", "g", "e">>))
  ELSE IF s[1] = Ord("'") /\ s[Len(s)] = Ord("'") THEN Ok(Slice(s, 1, -1))
  ELSE IF s[1] = Ord("\"") /\ s[Len(s)] = Ord("\"")
    THEN multi_sub(Slice(s, 1, -1), DoubleQuoteTable)
  ELSE IF Len(s) >= 2 /\ s[1] = Ord("$") /\ s[2] = Ord("'")
          /\ s[Len(s)] = Ord("'")
    THEN multi_sub(Slice(s, 2, -1), AnsiCTable)
  ELSE Ok(s)

\* The ValueError expect raises: its message ends with the line.
ExpectError(line) ==
  Raise("ValueError",
        Str(<<"E", "x", "p", "e", "c", "t", "e", "d", " ", "i", "n", "p", "u", "t", " ", "t", "o", " ", "b", "e", " ", "f", "o", "r", "m", "a", "t", "t", "e", "d", " ", "l", "i", "k", "e", " ", "t", "h", "e", " ", "o", "u", "t", "p", "u", "t", " ", "o", "f", " ", "t", "h", "e", " ">>) \o <<Backtick>> \o Str(<<"d", "e", "c", "l", "a", "r", "e", " ", "-", "p">>) \o <<Backtick>> \o Str(<<" ", "c", "o", "m", "m", "a", "n", "d", " ", "f", "r", "o", "m", " ", "b", "a", "s", "h", ".", " ", "G", "o", "t", ":", " ">>)
        \o line)

\* An expectation of expect: one string, or a list of strings.
OneOf(strs) == [isstr |-> FALSE, strs |-> strs]
Exactly(str) == [isstr |-> TRUE, strs |-> <<str>>]

\* The condition under which expect(token, expectation) raises:
\* isinstance(expectation, str) and token != expectation
\*   or token not in expectation
ExpectFails(token, expectation) ==
  \/ expectation.isstr /\ token # expectation.strs[1]
  \/ IF expectation.isstr
     THEN ~Contains(expectation.strs[1], token)
     ELSE \A i \in 1..Len(expectation.strs) : expectation.strs[i] # token

\* The expectations of the six tokens before the first group; the fourth
\* token, the variable name, is read and not looked at.
HeaderExpectations ==
  << OneOf(<<Str(<<"d", "e", "c", "l", "a", "r", "e">>), Str(<<"t", "y", "p", "e", "s", "e", "t">>)>>),
     Exactly(Str(<<"-">>)), Exactly(Str(<<"A">>)), OneOf(<<>>),
     Exactly(Str(<<"=">>)), Exactly(Str(<<"(">>)) >>

\* The header token t is read and, but for the fourth, expected.
HeaderToken(line, k, t) ==
  IF t.kind # "ok" THEN t
  ELSE IF k # 4 /\ ExpectFails(t.val, HeaderExpectations[k])
    THEN ExpectError(line)
  ELSE Ok(k + 1)

\* The statements of parse before the loop, from the k-th get_token() on:
\* the number of the first token of the loop, or the exception.
RECURSIVE ParseHeader(_, _, _)
ParseHeader(line, lx, k) ==
  IF k > Len(HeaderExpectations) THEN Ok(k)
  ELSE IF HeaderToken(line, k, GetToken(lx, k)).kind # "ok"
    THEN HeaderToken(line, k, GetToken(lx, k))
  ELSE ParseHeader(line, lx, k + 1)

\* token += lexer.get_token(), for the token "$" that was the k-th.
MergeDollar(k, u) ==
  IF u.kind # "ok" THEN u
  ELSE [kind |-> "ok", val |-> Str(<<"$">>) \o u.val, next |-> k + 2]

\* if token == "$": token += lexer.get_token(), for the k-th token t.
MergeToken(lx, k, t) ==
  IF t.kind # "ok" THEN t
  ELSE IF t.val = Str(<<"$">>) THEN MergeDollar(k, GetToken(lx, k + 1))
  ELSE [kind |-> "ok", val |-> t.val, next |-> k + 1]

\* token = lexer.get_token(); if token == "$": token += lexer.get_token()
ReadOperand(lx, k) == MergeToken(lx, k, GetToken(lx, k))

\* expect(token, expectation) for the token t that get_token() returned or
\* the exception it raised, and then the statements after it.
ExpectThen(line, t, expectation, after) ==
  IF t.kind # "ok" THEN t
  ELSE IF ExpectFails(t.val, expectation) THEN ExpectError(line)
  ELSE after

RECURSIVE ParseLoop(_, _, _, _)

\* data[key] = unquote(token), and the loop again from the k-th token.
StoreValue(line, lx, k, data, key, value) ==
  IF value.kind # "ok" THEN value
  ELSE ParseLoop(line, lx, k, DictSet(data, key, value.val))

\* The value token vt was read: unquote it.
ReadValue(line, lx, data, key, vt) ==
  IF vt.kind # "ok" THEN vt
  ELSE StoreValue(line, lx, vt.next, data, key, unquote(vt.val))

\* key = unquote(token) is done; expect "]" and "=", read the value token.
AfterKey(line, lx, k, data, key) ==
  IF key.kind # "ok" THEN key
  ELSE ExpectThen(line, GetToken(lx, k), Exactly(Str(<<"]">>)),
         ExpectThen(line, GetToken(lx, k + 1), Exactly(Str(<<"=">>)),
           ReadValue(line, lx, data, key.val, ReadOperand(lx, k + 2))))

\* The key token kt was read: unquote it.
ReadKey(line, lx, data, kt) ==
  IF kt.kind # "ok" THEN kt
  ELSE AfterKey(line, lx, kt.next, data, unquote(kt.val))

\* The loop condition and body for the k-th token t: ")" or end of input
\* leave the loop for the last expect, anything else must open a group.
LoopToken(line, lx, k, data, t) ==
  IF t.kind # "ok" THEN t
  ELSE IF t.val \in {Str(<<")">>), <<>>}
    THEN ExpectThen(line, t, Exactly(Str(<<")">>)), Ok(data))
  ELSE ExpectThen(line, t, Exactly(Str(<<"[">>)),
         ReadKey(line, lx, data, ReadOperand(lx, k + 1)))

\* The while loop of parse and the expect after it, the next get_token()
\* being the k-th, with the dict data built so far.
ParseLoop(line, lx, k, data) == LoopToken(line, lx, k, data, GetToken(lx, k))

\* The statements of parse after the header was read.
AfterHeader(line, lx, header) ==
  IF header.kind # "ok" THEN header
  ELSE ParseLoop(line, lx, header.val, <<>>)

\* parse with the tokens lx of the line.
ParseTokens(line, lx) == AfterHeader(line, lx, ParseHeader(line, lx, 1))

\* BashParser.parse(line)
BashParse(line) == ParseTokens(line, Tokens(line, 1))

\* A character shlex.quote leaves alone: [\w@%+=:,./-] (ASCII).
IsSafe(c) ==
  \/ IsWordChar(c)
  \/ c \in {Ord("@"), Ord("%"), Ord("+"), Ord("="), Ord(":"), Ord(","),
            Ord("."), Ord("/"), Ord("-")}

\* s.replace(old, new) for a one-character old.
RECURSIVE Replace(_, _, _)
Replace(s, old, new) ==
  IF s = <<>> THEN <<>>
  ELSE (IF Head(s) = old THEN new ELSE <<Head(s)>>)
       \o Replace(Tail(s), old, new)

\* shlex.quote(s)
ShlexQuote(s) ==
  IF s = <<>> THEN Str(<<"'", "'">>)
  ELSE IF \A i \in 1..Len(s) : IsSafe(s[i]) THEN s
  ELSE Str(<<"'">>)
       \o Replace(s, Ord("'"), Str(<<"'", "\"", "'", "\"", "'">>))
       \o Str(<<"'">>)

\* BashParser.unparse(data)
BashUnparse(data) ==
  Join(Str(<<" ">>),
       [i \in 1..Len(data) |->
          Str(<<"[">>) \o data[i][1] \o Str(<<"]", "=">>)
          \o ShlexQuote(data[i][2])])

(***************************************************************************)
(* JsonParser                                                              *)
(*                                                                         *)
(* json.loads is modelled on str input for the whole JSON grammar except   *)
(* the joining of \uD8xx\uDCxx surrogate pairs.  A JSON value is a record   *)
(* [t |-> its type, v |-> its content]: "str" with its characters, "num"   *)
(* with the text of the number, "lit" with null, true, false, NaN,         *)
(* Infinity or -Infinity, "list" with its items, "dict" with its items.    *)
(* Positions are counted from 0, as json counts them.                      *)
(***************************************************************************)

\* str(n) of a natural number.
RECURSIVE Decimal(_)
Decimal(n) ==
  IF n < 10 THEN <<Ord("0") + n>>
  ELSE Append(Decimal(n \div 10), Ord("0") + (n % 10))

\* s[idx], or -1 past the end.
At(s, idx) == IF idx < Len(s) THEN s[idx + 1] ELSE -1

\* s.startswith(prefix, idx)
StartsWith(s, prefix, idx) ==
  /\ idx + Len(prefix) <= Len(s)
  /\ \A j \in 1..Len(prefix) : s[idx + j] = prefix[j]

\* JSONDecodeError(msg, doc, pos): the message names the line, the column
\* and the position of the error, and not the document.
JSONDecodeError(msg, doc, pos) ==
  LET newlines == {j \in 1..pos : doc[j] = Ord("\n")}
      lineno == Cardinality(newlines) + 1
      colno == IF newlines = {} THEN pos + 1
               ELSE pos - ((CHOOSE j \in newlines : \A k \in newlines : k <= j)
                           - 1)
  IN  Raise("JSONDecodeError",
            msg \o Str(<<":", " ", "l", "i", "n", "e", " ">>) \o Decimal(lineno)
            \o Str(<<" ", "c", "o", "l", "u", "m", "n", " ">>) \o Decimal(colno)
            \o Str(<<" ", "(", "c", "h", "a", "r", " ">>) \o Decimal(pos)
            \o Str(<<")">>))

\* StopIteration(idx), which raw_decode turns into "Expecting value".
Stop(idx) == [kind |-> "StopIteration", pos |-> idx]
Scanned(val, end) == [kind |-> "ok", val |-> val, end |-> end]

IsJsonWs(c) == c \in {Ord(" "), Ord("\t"), Ord("\n"), 13}

\* The end of the whitespace that starts at idx.
RECURSIVE SkipWs(_, _)
SkipWs(s, idx) == IF IsJsonWs(At(s, idx)) THEN SkipWs(s, idx + 1) ELSE idx

\* The character a two-character escape stands for, 0 when there is none.
JsonEscape(c) ==
  CASE c = Ord("\"") -> c
    [] c = Ord("\\") -> c
    [] c = Ord("/") -> c
    [] c = Ord("b") -> 8
    [] c = Ord("f") -> 12
    [] c = Ord("n") -> 10
    [] c = Ord("r") -> 13
    [] c = Ord("t") -> 9
    [] OTHER -> 0

\* scanstring(s, end): the string whose opening quote is at begin, read
\* from next on, with the characters acc read so far.
RECURSIVE ScanString(_, _, _, _)
ScanString(s, begin, next, acc) ==
  LET c == At(s, next)
      e == At(s, next + 1)
  IN
  IF c = -1 THEN JSONDecodeError(Str(<<"U", "n", "t", "e", "r", "m", "i", "n", "a", "t", "e", "d", " ", "s", "t", "r", "i", "n", "g", " ", "s", "t", "a", "r", "t", "i", "n", "g", " ", "a", "t">>), s, begin)
  ELSE IF c = Ord("\"") THEN Scanned([t |-> "str", v |-> acc], next + 1)
  ELSE IF c <= 31 THEN JSONDecodeError(Str(<<"I", "n", "v", "a", "l", "i", "d", " ", "c", "o", "n", "t", "r", "o", "l", " ", "c", "h", "a", "r", "a", "c", "t", "e", "r", " ", "a", "t">>), s, next)
  ELSE IF c # Ord("\\") THEN ScanString(s, begin, next + 1, Append(acc, c))
  ELSE IF e = -1 THEN JSONDecodeError(Str(<<"U", "n", "t", "e", "r", "m", "i", "n", "a", "t", "e", "d", " ", "s", "t", "r", "i", "n", "g", " ", "s", "t", "a", "r", "t", "i", "n", "g", " ", "a", "t">>), s, begin)
  ELSE IF e # Ord("u")
    THEN IF JsonEscape(e) = 0 THEN JSONDecodeError(Str(<<"I", "n", "v", "a", "l", "i", "d", " ", "\\", "e", "s", "c", "a", "p", "e">>), s, next)
         ELSE ScanString(s, begin, next + 2, Append(acc, JsonEscape(e)))
  ELSE IF next + 6 > Len(s) \/ \E j \in 3..6 : ~IsHexDigit(s[next + j])
    THEN JSONDecodeError(Str(<<"I", "n", "v", "a", "l", "i", "d", " ", "\\", "u", "X", "X", "X", "X", " ", "e", "s", "c", "a", "p", "e">>), s, next + 1)
  ELSE ScanString(s, begin, next + 6,
                  Append(acc, IntOf(SubSeq(s, next + 3, next + 6), 16, 0)))

\* The end of the exponent whose digits start at i3 and are ne many, i2
\* being the end of the number without it.
ExpEnd(i2, i3, ne) == IF ne > 0 THEN i3 + ne ELSE i2

\* ([eE][-+]?[0-9]+)? at i2, its digits being expected at i3.
ExpDigits(s, i2, i3) ==
  ExpEnd(i2, i3, IF i3 > i2 THEN RunLen(FALSE, s, i3 + 1, Len(s)) ELSE 0)

ExpPart(s, i2) ==
  ExpDigits(s, i2,
            IF At(s, i2) \in {Ord("e"), Ord("E")}
            THEN (IF At(s, i2 + 1) \in {Ord("+"), Ord("-")} THEN i2 + 2
                  ELSE i2 + 1)
            ELSE i2)

\* (\.[0-9]+)? at i1, with nf digits after the point.
FracEnd(i1, nf) == IF nf > 0 THEN i1 + 1 + nf ELSE i1

FracPart(s, i1) ==
  ExpPart(s, FracEnd(i1, IF At(s, i1) = Ord(".")
                         THEN RunLen(FALSE, s, i1 + 2, Len(s)) ELSE 0))

\* (0|[1-9][0-9]*) at i0, ni characters long.
IntEnd(s, idx, i0, ni) == IF ni = 0 THEN idx ELSE FracPart(s, i0 + ni)

IntPart(s, idx, i0) ==
  IntEnd(s, idx, i0, IF At(s, i0) = Ord("0") THEN 1
                     ELSE RunLen(FALSE, s, i0 + 1, Len(s)))

\* The end of the number that starts at idx, idx itself when none does:
\* -?(0|[1-9][0-9]*)(\.[0-9]+)?([eE][-+]?[0-9]+)?
NumberEnd(s, idx) ==
  IntPart(s, idx, IF At(s, idx) = Ord("-") THEN idx + 1 ELSE idx)

\* The constants scan_once knows, in the order it tries them.
JsonLiterals ==
  << Str(<<"n", "u", "l", "l">>), Str(<<"t", "r", "u", "e">>), Str(<<"f", "a", "l", "s", "e">>), Str(<<"N", "a", "N">>), Str(<<"I", "n", "f", "i", "n", "i", "t", "y">>), Str(<<"-", "I", "n", "f", "i", "n", "i", "t", "y">>) >>

\* The first constant from the j-th on that starts at idx, 0 when none does.
RECURSIVE FirstLiteral(_, _, _)
FirstLiteral(s, idx, j) ==
  IF j > Len(JsonLiterals) THEN 0
  ELSE IF StartsWith(s, JsonLiterals[j], idx) THEN j
  ELSE FirstLiteral(s, idx, j + 1)

RECURSIVE ScanOnce(_, _)
RECURSIVE ParseObject(_, _, _)
RECURSIVE ParseArray(_, _, _)

\* The number that ends at numend, if one starts at idx.
ScanNumber(s, idx, numend) ==
  IF numend > idx
  THEN Scanned([t |-> "num", v |-> SubSeq(s, idx + 1, numend)], numend)
  ELSE Stop(idx)

\* The j-th constant, or a number when j is 0.
ScanLiteral(s, idx, j) ==
  IF j > 0
  THEN Scanned([t |-> "lit", v |-> JsonLiterals[j]], idx + Len(JsonLiterals[j]))
  ELSE ScanNumber(s, idx, NumberEnd(s, idx))

\* JSONObject(s, end), i being the end of the whitespace after the brace.
ObjectFrom(s, i) ==
  IF At(s, i) = Ord("}") THEN Scanned([t |-> "dict", v |-> <<>>], i + 1)
  ELSE ParseObject(s, i, <<>>)

\* JSONArray(s, end), i being the end of the whitespace after the bracket.
ArrayFrom(s, i) ==
  IF At(s, i) = Ord("]") THEN Scanned([t |-> "list", v |-> <<>>], i + 1)
  ELSE ParseArray(s, i, <<>>)

\* scan_once(s, idx) on the character c = s[idx].
ScanAt(s, idx, c) ==
  IF c = -1 THEN Stop(idx)
  ELSE IF c = Ord("\"") THEN ScanString(s, idx, idx + 1, <<>>)
  ELSE IF c = Ord("{") THEN ObjectFrom(s, SkipWs(s, idx + 1))
  ELSE IF c = Ord("[") THEN ArrayFrom(s, SkipWs(s, idx + 1))
  ELSE ScanLiteral(s, idx, FirstLiteral(s, idx, 1))

\* scan_once(s, idx): the JSON value that starts at idx.
ScanOnce(s, idx) == ScanAt(s, idx, At(s, idx))

\* After an item of an object: "}" ends it, "," goes on with the next key.
ObjectNext(s, items, after) ==
  IF At(s, after) = Ord("}")
  THEN Scanned([t |-> "dict", v |-> items], after + 1)
  ELSE IF At(s, after) # Ord(",") THEN JSONDecodeError(Str(<<"E", "x", "p", "e", "c", "t", "i", "n", "g", " ", "'", ",", "'", " ", "d", "e", "l", "i", "m", "i", "t", "e", "r">>), s, after)
  ELSE ParseObject(s, SkipWs(s, after + 1), items)

\* The value val of the key was scanned.
ObjectValue(s, items, key, val) ==
  IF val.kind # "ok" THEN val
  ELSE ObjectNext(s, DictSet(items, key, val.val), SkipWs(s, val.end))

\* The ":" expected at colon, and the value after it.
ObjectColon(s, items, key, colon) ==
  IF At(s, colon) # Ord(":") THEN JSONDecodeError(Str(<<"E", "x", "p", "e", "c", "t", "i", "n", "g", " ", "'", ":", "'", " ", "d", "e", "l", "i", "m", "i", "t", "e", "r">>), s, colon)
  ELSE ObjectValue(s, items, key, ScanOnce(s, SkipWs(s, colon + 1)))

\* The key was scanned.
ObjectKey(s, items, key) ==
  IF key.kind # "ok" THEN key
  ELSE ObjectColon(s, items, key.val.v, SkipWs(s, key.end))

\* The loop of JSONObject from the key expected at idx on, with the items
\* read so far.
ParseObject(s, idx, items) ==
  IF At(s, idx) # Ord("\"") THEN JSONDecodeError(Str(<<"E", "x", "p", "e", "c", "t", "i", "n", "g", " ", "p", "r", "o", "p", "e", "r", "t", "y", " ", "n", "a", "m", "e", " ", "e", "n", "c", "l", "o", "s", "e", "d", " ", "i", "n", " ", "d", "o", "u", "b", "l", "e", " ", "q", "u", "o", "t", "e", "s">>), s, idx)
  ELSE ObjectKey(s, items, ScanString(s, idx, idx + 1, <<>>))

\* After an item of an array: "]" ends it, "," goes on with the next item.
ArrayNext(s, items, after) ==
  IF At(s, after) = Ord("]")
  THEN Scanned([t |-> "list", v |-> items], after + 1)
  ELSE IF At(s, after) # Ord(",") THEN JSONDecodeError(Str(<<"E", "x", "p", "e", "c", "t", "i", "n", "g", " ", "'", ",", "'", " ", "d", "e", "l", "i", "m", "i", "t", "e", "r">>), s, after)
  ELSE ParseArray(s, SkipWs(s, after + 1), items)

\* The item val was scanned.
ArrayValue(s, items, val) ==
  IF val.kind # "ok" THEN val
  ELSE ArrayNext(s, Append(items, val.val), SkipWs(s, val.end))

\* The loop of JSONArray from the item expected at idx on, with the items
\* read so far.
ParseArray(s, idx, items) == ArrayValue(s, items, ScanOnce(s, idx))

\* decode: nothing but whitespace may follow the value, which ends at end.
DecodeEnd(s, val, end) ==
  IF end # Len(s) THEN JSONDecodeError(Str(<<"E", "x", "t", "r", "a", " ", "d", "a", "t", "a">>), s, end) ELSE Ok(val)

\* raw_decode: StopIteration becomes "Expecting value".
Decoded(s, obj) ==
  IF obj.kind = "StopIteration" THEN JSONDecodeError(Str(<<"E", "x", "p", "e", "c", "t", "i", "n", "g", " ", "v", "a", "l", "u", "e">>), s, obj.pos)
  ELSE IF obj.kind # "ok" THEN obj
  ELSE DecodeEnd(s, obj.val, SkipWs(s, obj.end))

\* json.loads(s)
JsonLoads(s) ==
  IF At(s, 0) = 65279 THEN JSONDecodeError(Str(<<"U", "n", "e", "x", "p", "e", "c", "t", "e", "d", " ", "U", "T", "F", "-", "8", " ", "B", "O", "M", " ", "(", "d", "e", "c", "o", "d", "e", " ", "u", "s", "i", "n", "g", " ", "u", "t", "f", "-", "8", "-", "s", "i", "g", ")">>), s, 0)
  ELSE Decoded(s, ScanOnce(s, SkipWs(s, 0)))

\* The statements of parse on what json.loads returned or raised.
JsonResult(line, data) ==
  IF data.kind = "JSONDecodeError" THEN Raise("ValueError", data.msg)
  ELSE IF data.val.t # "dict" THEN Raise("ValueError", Str(<<"E", "x", "p", "e", "c", "t", "e", "d", " ", "t", "o", " ", "p", "a", "r", "s", "e", " ", "a", "n", " ", "j", "s", "o", "n", " ", "o", "b", "j", "e", "c", "t", ",", " ", "g", "o", "t", " ">>) \o line)
  ELSE Ok(data.val.v)

\* JsonParser.parse(line)
JsonParse(line) == JsonResult(line, JsonLoads(line))

(***************************************************************************)
(* SimpleParser                                                            *)
(***************************************************************************)

SEPARATOR == Str(<<"\t">>)

\* s.split(sep) for a one-character sep, the field begun so far being cur.
RECURSIVE SplitFrom(_, _, _)
SplitFrom(s, sep, cur) ==
  IF s = <<>> THEN <<cur>>
  ELSE IF Head(s) = sep THEN <<cur>> \o SplitFrom(Tail(s), sep, <<>>)
  ELSE SplitFrom(Tail(s), sep, Append(cur, Head(s)))

\* The fault of calling line.split() for line.split(sep): runs of the
\* separator count as one and empty fields vanish.
SplitRuns(s, sep) ==
  SelectSeq(SplitFrom(s, sep[1], <<>>), LAMBDA field : field # <<>>)

Split(s, sep) == SplitFrom(s, sep[1], <<>>)

\* SimpleParser.parse(line)
SimpleParse(line) ==
  LET components == Split(line, SEPARATOR)
  IN  IF Len(components) % 2 # 0
      THEN Raise("ValueError", Str(<<"E", "x", "p", "e", "c", "t", "e", "d", " ", "k", "e", "y", " ", "v", "a", "l", "u", "e", " ", "p", "a", "i", "r", "s", ",", " ", "b", "u", "t", " ", "a", "t", " ", "l", "e", "a", "s", "t", " ", "o", "n", "e", " ", "k", "e", "y", " ", "h", "a", "s", " ", "n", "o", " ", "v", "a", "l", "u", "e", ":", " ">>) \o line)
      ELSE Ok(DictFrom([i \in 1..(Len(components) \div 2) |->
                          <<components[2 * i - 1], components[2 * i]>>],
                       <<>>))

\* SimpleParser.unparse(data)
SimpleUnparse(data) ==
  Join(SEPARATOR,
       [i \in 1..Len(data) |->
          data[i][1] \o SEPARATOR \o Replace(data[i][2], Ord("\n"), <<>>)])

(***************************************************************************)
(* ParserOption                                                            *)
(***************************************************************************)

\* The fault of a get_name() copied from the class above and left as it
\* was: BashParser answers "simple".
get_name_copied(parser_class) ==
  CASE parser_class = "JsonParser" -> "json"
    [] parser_class = "SimpleParser" -> "simple"
    [] parser_class = "BashParser" -> "simple"

\* get_name() of each parser class.
get_name(parser_class) ==
  CASE parser_class = "JsonParser" -> "json"
    [] parser_class = "SimpleParser" -> "simple"
    [] parser_class = "BashParser" -> "bash"

\* ParserOption.__new__(cls, parser_class)
NewOption(name, parser_class) ==
  [name |-> name, value |-> get_name(parser_class),
   parser_class |-> parser_class]

\* The members of the enumeration, in definition order.
ParserOption ==
  << NewOption("JSON", "JsonParser"), NewOption("SIMPLE", "SimpleParser"),
     NewOption("BASH", "BashParser") >>

\* ParserOption(value): the member with that value, or enum's ValueError.
Lookup(value) ==
  LET found == {i \in 1..Len(ParserOption) : ParserOption[i].value = value}
  IN  IF found = {} THEN Raise("ValueError", value)
      ELSE Ok(ParserOption[CHOOSE i \in found : \A j \in found : i <= j])

(***************************************************************************)
(* DaemonThreadPoolExecutor                                                *)
(***************************************************************************)

\* max_workers of the executor.
MaxWorkers == 2
\* The number of submit() calls a behaviour makes.
MaxSubmits == 4

\* The fault of comparing with <= for <.
CanStartAtMax(num_threads) == num_threads <= MaxWorkers

\* num_threads < self._max_workers
CanStart(num_threads) == num_threads < MaxWorkers

\* threading.Thread(name=thread_name, target=thread._worker, args=args,
\*                  daemon=True), started and waiting for work.
NewThread(num_threads) ==
  [name |-> num_threads, daemon |-> TRUE, state |-> "waiting"]

(***************************************************************************)
(* The inputs                                                              *)
(***************************************************************************)

\* The longest line given to SimpleParser.parse.
MaxLineLen == 5
\* The most items of a record given to unparse.
MaxPairs == 2
\* The most pieces of a line given to JsonParser.parse or BashParser.parse.
MaxPieces == 3
\* The most characters and escapes between the quotes of a quoted value.
MaxAtoms == 2

\* All sequences of at most n elements of S.
RECURSIVE SeqsUpTo(_, _)
SeqsUpTo(S, n) ==
  IF n = 0 THEN {<<>>}
  ELSE LET shorter == SeqsUpTo(S, n - 1)
       IN  shorter \cup {Append(q, x) : q \in {r \in shorter : Len(r) = n - 1},
                                        x \in S}

\* The records of at most MaxPairs items with keys of K and values of V.
Records(K, V) ==
  {r \in SeqsUpTo(K \X V, MaxPairs) :
     \A i, j \in 1..Len(r) : i # j => r[i][1] # r[j][1]}

SimpleChars == {Ord("a"), Ord("b"), Ord("\t")}
SimpleLines == SeqsUpTo(SimpleChars, MaxLineLen)
SimpleFields == { <<>>,
      Str(<<"a">>),
      Str(<<"b">>),
      Str(<<"\t">>),
      Str(<<"\n">>),
      Str(<<"a", "\n">>) }
SimpleRecords == Records(SimpleFields, SimpleFields)

BashKeys == { Str(<<"k">>),
      Str(<<"j">>),
      <<>> }
BashValues == { <<>>,
      Str(<<"a">>),
      Str(<<"a", " ", "b">>),
      Str(<<"a", "'", "b">>),
      Str(<<"a", ".", "b">>),
      Str(<<"a", "-", "b">>),
      Str(<<"a", "/", "b">>),
      Str(<<"a", ":", "b">>) }
BashRecords == Records(BashKeys, BashValues)

\* "declare -A x=(" + payload + ")"
Declaration(payload) == Str(<<"d", "e", "c", "l", "a", "r", "e", " ", "-", "A", " ", "x", "=", "(">>) \o payload \o Str(<<")">>)

GoodHeaders == { Str(<<"d", "e", "c", "l", "a", "r", "e", " ", "-", "A", " ", "x", "=", "(">>),
      Str(<<"t", "y", "p", "e", "s", "e", "t", " ", "-", "A", " ", "x", "=", "(">>) }
BadHeaders == { <<>>,
      Str(<<"d", "e", "c", "l", "a", "r", "e">>),
      Str(<<"d", "e", "c", "l", "a", "r", "e", " ", "-", "a", " ", "x", "=", "(">>),
      Str(<<"d", "e", "c", "l", "a", "r", "e", " ", "A", " ", "x", "=", "(">>),
      Str(<<"l", "o", "c", "a", "l", " ", "-", "A", " ", "x", "=", "(">>),
      Str(<<"d", "e", "c", "l", "a", "r", "e", " ", "-", "A", " ", "x", "(">>),
      Str(<<"d", "e", "c", "l", "a", "r", "e", " ", "-", "A", " ", "x", "=">>),
      Str(<<"d", "e", "c", "l", "a", "r", "e", " ", "-", "A", " ", "=", "(">>) }
BashPieces == { Str(<<"[", "k", "]", "=", "v">>),
      Str(<<"[", "k", "]", "=", "w", " ">>),
      Str(<<"[", "j", "]", "=", "'", "a", " ", "b", "'", " ">>),
      Str(<<"[">>),
      Str(<<"[", "k", "]", "=">>),
      Str(<<")">>),
      Str(<<"[", "k", "=", "v">>),
      Str(<<"k", "]", "=", "v">>),
      Str(<<"[", "k", "]", "v">>),
      Str(<<"[", "k", "]", "=", "'">>) }
BashLines ==
  {h \o Concat(b) : h \in GoodHeaders, b \in SeqsUpTo(BashPieces, MaxPieces)}
  \cup {h \o Concat(b) : h \in BadHeaders, b \in SeqsUpTo(BashPieces, 1)}

\* What may stand between double quotes: ordinary characters, the four
\* escapes of the double-quote table, another backslash sequence.
DoubleQuoteAtoms == { Str(<<"a">>),
    Str(<<" ">>),
    Str(<<"\\", "\\">>),
    Str(<<"\\", "\"">>),
    Str(<<"\\", "$">>),
    Str(<<"\\">>) \o <<Backtick>>,
    Str(<<"\\", "n">>) }
\* declare -A x=([k]="BODY")
DoubleQuoted(body) ==
  Str(<<"d", "e", "c", "l", "a", "r", "e", " ", "-", "A", " ", "x", "=", "(", "[", "k", "]", "=", "\"">>) \o body \o Str(<<"\"", ")">>)
DoubleQuotedLines ==
  {DoubleQuoted(Concat(b)) : b \in SeqsUpTo(DoubleQuoteAtoms, MaxAtoms)}

\* What may stand in $'...': ordinary characters and numeric escapes.
AnsiCAtoms == { Str(<<"a">>),
      Str(<<"1">>),
      Str(<<"\\", "1", "0", "1">>),
      Str(<<"\\", "7">>),
      Str(<<"\\", "8">>),
      Str(<<"\\", "x", "4", "1">>),
      Str(<<"\\", "x", "4">>),
      Str(<<"\\", "u", "0", "0", "e", "9">>),
      Str(<<"\\", "U", "0", "0", "0", "1", "F", "6", "0", "0">>),
      Str(<<"\\", "U", "0", "0", "1", "1", "0", "0", "0", "0">>),
      Str(<<"\\", "U", "F", "F", "F", "F", "F", "F", "F", "F">>) }
\* declare -A x=([k]=$'BODY')
AnsiCQuoted(body) ==
  Str(<<"d", "e", "c", "l", "a", "r", "e", " ", "-", "A", " ", "x", "=", "(", "[", "k", "]", "=", "$", "'">>) \o body \o Str(<<"'", ")">>)
AnsiCLines ==
  {AnsiCQuoted(Concat(b)) : b \in SeqsUpTo(AnsiCAtoms, MaxAtoms)}

JsonPieces == { Str(<<"{">>),
      Str(<<"}">>),
      Str(<<"{", "\"", "a", "\"", ":">>),
      Str(<<"\"", "a", "\"">>),
      Str(<<"1">>),
      Str(<<",", "\"", "b", "\"", ":">>),
      Str(<<"[">>),
      Str(<<"]">>),
      Str(<<" ">>),
      Str(<<"\"">>) }
JsonLines == {Concat(b) : b \in SeqsUpTo(JsonPieces, MaxPieces)}

FormatNames ==
  {"json", "simple", "bash", "xml", "", "JSON", "Bash", "yaml", "jsonl"}

(***************************************************************************)
(* The state                                                               *)
(***************************************************************************)

VARIABLES
  task,            \* what the host does: "parse", "roundtrip", "select", "pool"
  format,          \* the format name the host uses
  pc,              \* "record", "unparsed", "line", "name" or "done"
  data,            \* the record given to unparse
  out,             \* what unparse returned
  line,            \* the line given to parse
  ret,             \* what parse or the registry returned or raised
  threads,         \* self._threads, in the order the threads were added
  idle_semaphore,  \* the permits of self._idle_semaphore
  work_queue,      \* the work items in self._work_queue
  submit_pc,       \* where the holder of _shutdown_lock is in submit()
  submitted        \* the number of submit() calls so far

codec_vars == <<task, format, pc, data, out, line, ret>>
pool_vars == <<threads, idle_semaphore, work_queue, submit_pc, submitted>>
vars == <<task, format, pc, data, out, line, ret,
          threads, idle_semaphore, work_queue, submit_pc, submitted>>

None == [kind |-> "none"]

\* DaemonThreadPoolExecutor(max_workers=MaxWorkers)
PoolInit ==
  /\ threads = <<>>
  /\ idle_semaphore = 0
  /\ work_queue = <<>>
  /\ submit_pc = "idle"
  /\ submitted = 0

CodecIdle ==
  /\ task = "pool" /\ format = "" /\ pc = "done"
  /\ data = <<>> /\ out = <<>> /\ line = <<>> /\ ret = None

\* The host has a line to parse, a record to send through unparse and
\* parse, or a format name to select.
Init ==
  /\ PoolInit
  /\ out = <<>> /\ ret = None
  /\ \/ /\ task = "parse" /\ pc = "line" /\ data = <<>>
        /\ \/ format = "simple" /\ line \in SimpleLines
           \/ format = "bash"
              /\ line \in BashLines \cup DoubleQuotedLines \cup AnsiCLines
           \/ format = "json" /\ line \in JsonLines
     \/ /\ task = "roundtrip" /\ pc = "record" /\ line = <<>>
        /\ \/ format = "simple" /\ data \in SimpleRecords
           \/ format = "bash" /\ data \in BashRecords
     \/ /\ task = "select" /\ pc = "name" /\ line = <<>> /\ data = <<>>
        /\ format \in FormatNames

(***************************************************************************)
(* The codec operations                                                    *)
(***************************************************************************)

Unparse(fmt, record) ==
  IF fmt = "simple" THEN SimpleUnparse(record) ELSE BashUnparse(record)

\* SimpleParser.unparse(data) or BashParser.unparse(data)
UnparseStep ==
  /\ pc = "record"
  /\ out' = Unparse(format, data)
  /\ pc' = "unparsed"
  /\ UNCHANGED <<task, format, data, line, ret>>
  /\ UNCHANGED pool_vars

\* The output of unparse comes back as a line: as it is for simple, inside
\* a declaration for bash, whose unparse writes the payload only.
Feed ==
  /\ pc = "unparsed"
  /\ line' = IF format = "bash" THEN Declaration(out) ELSE out
  /\ pc' = "line"
  /\ UNCHANGED <<task, format, data, out, ret>>
  /\ UNCHANGED pool_vars

\* SimpleParser.parse(line)
SimpleParseStep ==
  /\ pc = "line" /\ format = "simple"
  /\ ret' = SimpleParse(line)
  /\ pc' = "done"
  /\ UNCHANGED <<task, format, data, out, line>>
  /\ UNCHANGED pool_vars

\* BashParser.parse(line)
BashParseStep ==
  /\ pc = "line" /\ format = "bash"
  /\ ret' = BashParse(line)
  /\ pc' = "done"
  /\ UNCHANGED <<task, format, data, out, line>>
  /\ UNCHANGED pool_vars

\* JsonParser.parse(line)
JsonParseStep ==
  /\ pc = "line" /\ format = "json"
  /\ ret' = JsonParse(line)
  /\ pc' = "done"
  /\ UNCHANGED <<task, format, data, out, line>>
  /\ UNCHANGED pool_vars

\* ParserOption(format)
Select ==
  /\ pc = "name"
  /\ ret' = Lookup(format)
  /\ pc' = "done"
  /\ UNCHANGED <<task, format, data, out, line>>
  /\ UNCHANGED pool_vars

Next ==
  \/ UnparseStep
  \/ Feed
  \/ SimpleParseStep
  \/ BashParseStep
  \/ JsonParseStep
  \/ Select

Spec == Init /\ [][Next]_vars

(***************************************************************************)
(* The thread pool operations                                              *)
(***************************************************************************)

\* submit(), up to the call of _adjust_thread_count: the work item is put
\* on the queue under _shutdown_lock.
Submit ==
  /\ submit_pc = "idle"
  /\ submitted < MaxSubmits
  /\ work_queue' = Append(work_queue, submitted + 1)
  /\ submitted' = submitted + 1
  /\ submit_pc' = "adjust"
  /\ UNCHANGED <<threads, idle_semaphore>>
  /\ UNCHANGED codec_vars

\* _adjust_thread_count: self._idle_semaphore.acquire(timeout=0), and the
\* return when it got a permit.
AdjustAcquire ==
  /\ submit_pc = "adjust"
  /\ IF idle_semaphore > 0
     THEN idle_semaphore' = idle_semaphore - 1 /\ submit_pc' = "idle"
     ELSE idle_semaphore' = idle_semaphore /\ submit_pc' = "count"
  /\ UNCHANGED <<threads, work_queue, submitted>>
  /\ UNCHANGED codec_vars

\* _adjust_thread_count after a failed acquire: one more thread when there
\* are fewer than max_workers.
AdjustStart ==
  /\ submit_pc = "count"
  /\ threads' = IF CanStart(Len(threads))
                THEN Append(threads, NewThread(Len(threads)))
                ELSE threads
  /\ submit_pc' = "idle"
  /\ UNCHANGED <<idle_semaphore, work_queue, submitted>>
  /\ UNCHANGED codec_vars

\* thread._worker: work_queue.get(block=True)
WorkerGet(t) ==
  /\ threads[t].state = "waiting"
  /\ work_queue # <<>>
  /\ work_queue' = Tail(work_queue)
  /\ threads' = [threads EXCEPT ![t].state = "running"]
  /\ UNCHANGED <<idle_semaphore, submit_pc, submitted>>
  /\ UNCHANGED codec_vars

\* thread._worker: work_item.run() has returned, the worker releases the
\* idle semaphore and waits again.
WorkerDone(t) ==
  /\ threads[t].state = "running"
  /\ idle_semaphore' = idle_semaphore + 1
  /\ threads' = [threads EXCEPT ![t].state = "waiting"]
  /\ UNCHANGED <<work_queue, submit_pc, submitted>>
  /\ UNCHANGED codec_vars

NextPool ==
  \/ Submit
  \/ AdjustAcquire
  \/ AdjustStart
  \/ \E t \in 1..Len(threads) : WorkerGet(t)
  \/ \E t \in 1..Len(threads) : WorkerDone(t)

\* The executor is constructed and the host parses nothing.
InitPool == PoolInit /\ CodecIdle

SpecPool == InitPool /\ [][NextPool]_vars

(***************************************************************************)
(* The properties                                                          *)
(***************************************************************************)

ParseDone(fmt) == pc = "done" /\ format = fmt /\ task \in {"parse", "roundtrip"}
RoundTripDone(fmt) == pc = "done" /\ format = fmt /\ task = "roundtrip"

\* The one-item record {key: value}.
Single(key, value) == << <<key, value>> >>

\* C1: a record sent through BashParser.unparse and, inside a declaration,
\* through BashParser.parse comes back equal to itself.
BashRoundTrip ==
  RoundTripDone("bash") => ret.kind = "ok" /\ DictEq(ret.val, data)

\* The round trip of {"k": "a.b"} has ended in ValueError.
BashRoundTripFails ==
  /\ RoundTripDone("bash")
  /\ data = Single(Str(<<"k">>), Str(<<"a", ".", "b">>))
  /\ ret.kind = "ValueError"

NoTabNoNewline(s) == \A i \in 1..Len(s) : s[i] \notin {Ord("\t"), Ord("\n")}

\* C2: a record in which no value holds a TAB or a newline, the empty
\* record included, sent through SimpleParser.unparse and SimpleParser.parse
\* comes back equal to itself.
SimpleRoundTrip ==
  (RoundTripDone("simple") /\ \A i \in 1..Len(data) : NoTabNoNewline(data[i][2]))
    => ret.kind = "ok" /\ DictEq(ret.val, data)

\* The round trip of the empty record has ended in ValueError.
SimpleRoundTripFails ==
  RoundTripDone("simple") /\ data = <<>> /\ ret.kind = "ValueError"

\* C3: BashParser.parse returns a record or raises ValueError, whatever the
\* line; no other exception leaves it.
BashParseValueErrorOnly ==
  ParseDone("bash") => ret.kind \in {"ok", "ValueError"}

\* The line that ends after "[" has ended in IndexError.
BashParseIndexError ==
  /\ ParseDone("bash")
  /\ line = Str(<<"d", "e", "c", "l", "a", "r", "e", " ", "-", "A", " ", "x", "=", "(", "[">>)
  /\ ret.kind = "IndexError"

\* C4: the message of every ValueError parse raises, in each of the three
\* parsers, holds the line that was parsed.
FormatErrorCarriesLine ==
  (pc = "done" /\ task \in {"parse", "roundtrip"} /\ ret.kind = "ValueError")
    => Contains(ret.msg, line)

\* The JSON line "{" has ended in a ValueError whose message is without it.
JsonErrorWithoutLine ==
  /\ ParseDone("json")
  /\ line = Str(<<"{">>)
  /\ ret.kind = "ValueError"
  /\ ~Contains(ret.msg, line)

\* The fields of a line, told from the positions of its TABs.
TabsUpTo(s, i) == Cardinality({j \in 1..i : s[j] = Ord("\t")})
FieldCount(s) == TabsUpTo(s, Len(s)) + 1
\* The position of the n-th TAB; 0 and Len(s) + 1 stand for the two ends.
NthTab(s, n) ==
  IF n = 0 THEN 0
  ELSE IF n > TabsUpTo(s, Len(s)) THEN Len(s) + 1
  ELSE CHOOSE i \in 1..Len(s) : s[i] = Ord("\t") /\ TabsUpTo(s, i) = n
Field(s, n) == SubSeq(s, NthTab(s, n - 1) + 1, NthTab(s, n) - 1)

\* The mapping d sends every odd field of the n fields of s to the field
\* after it, the last of equal keys winning, and has no other key.
MapsFields(d, s, n) ==
  /\ Len(d) = Cardinality(DictKeys(d))
  /\ DictKeys(d) = {Field(s, 2 * i - 1) : i \in 1..(n \div 2)}
  /\ \A i \in 1..(n \div 2) :
       (\A j \in (i + 1)..(n \div 2) : Field(s, 2 * j - 1) # Field(s, 2 * i - 1))
         => DictGet(d, Field(s, 2 * i - 1)) = Field(s, 2 * i)

\* C5: SimpleParser.parse raises ValueError exactly when the line has an odd
\* number of TAB-separated fields; otherwise it returns the mapping of each
\* odd field to the field after it, a later duplicate key overwriting the
\* earlier one.
SimpleParseContract ==
  ParseDone("simple") =>
    IF FieldCount(line) % 2 = 1 THEN ret.kind = "ValueError"
    ELSE ret.kind = "ok" /\ MapsFields(ret.val, line, FieldCount(line))

\* A line of four fields with the empty key twice has been parsed: the later
\* value is the one returned.
SimpleParseDuplicateKey ==
  /\ ParseDone("simple")
  /\ line = Str(<<"\t", "a", "\t", "\t", "b">>)
  /\ ret = Ok(Single(<<>>, Str(<<"b">>)))

\* What stands between the quotes of DoubleQuoted(body) or AnsiCQuoted(body),
\* the opening quote being the n-th character.
Body(quoted, n) == SubSeq(quoted, n + 1, Len(quoted) - 2)

\* s with every backslash that stands before a character of special removed.
RECURSIVE Unescaped(_, _)
Unescaped(s, special) ==
  IF s = <<>> THEN <<>>
  ELSE IF Len(s) >= 2 /\ s[1] = Ord("\\") /\ s[2] \in special
    THEN <<s[2]>> \o Unescaped(SubSeq(s, 3, Len(s)), special)
  ELSE <<s[1]>> \o Unescaped(Tail(s), special)

\* C6: for declare -A x=([k]="BODY"), parse returns {k: v} where v is BODY
\* with backslash-backslash, backslash-doublequote, backslash-dollar and
\* backslash-backtick replaced by their second character and every other
\* backslash sequence unchanged.
DoubleQuoteEscapes ==
  (ParseDone("bash") /\ line \in DoubleQuotedLines) =>
    /\ ret.kind = "ok"
    /\ ret.val = Single(Str(<<"k">>),
                        Unescaped(Body(line, 19),
                                  {Ord("\\"), Ord("\""), Ord("$"), Backtick}))

\* The declaration whose BODY is backslash-doublequote has ended in
\* ValueError.
DoubleQuoteEscapeFails ==
  /\ ParseDone("bash")
  /\ line = DoubleQuoted(Str(<<"\\", "\"">>))
  /\ ret.kind = "ValueError"

\* The number of digits of the numeric escape at the head of s (s[1] is the
\* backslash) and the position of the first of them.
EscapeDigits(s) ==
  IF Len(s) < 2 THEN [at |-> 2, n |-> 0, base |-> 8]
  ELSE IF IsDigit(s[2]) THEN [at |-> 2, n |-> RunLen(FALSE, s, 2, 3), base |-> 8]
  ELSE IF s[2] = Ord("x") THEN [at |-> 3, n |-> RunLen(TRUE, s, 3, 2), base |-> 16]
  ELSE IF s[2] = Ord("u") THEN [at |-> 3, n |-> RunLen(TRUE, s, 3, 4), base |-> 16]
  ELSE IF s[2] = Ord("U") THEN [at |-> 3, n |-> RunLen(TRUE, s, 3, 8), base |-> 16]
  ELSE [at |-> 2, n |-> 0, base |-> 8]

\* s with every numeric escape replaced by the character whose code is the
\* value of its digits; esc is EscapeDigits(s) where s starts with "\".
RECURSIVE NumericUnescaped(_)
NumericUnescapedFrom(s, esc) ==
  IF esc.n = 0 THEN <<s[1]>> \o NumericUnescaped(Tail(s))
  ELSE <<IntOf(SubSeq(s, esc.at, esc.at + esc.n - 1), esc.base, 0)>>
       \o NumericUnescaped(SubSeq(s, esc.at + esc.n, Len(s)))
NumericUnescaped(s) ==
  IF s = <<>> THEN <<>>
  ELSE IF s[1] = Ord("\\") THEN NumericUnescapedFrom(s, EscapeDigits(s))
  ELSE <<s[1]>> \o NumericUnescaped(Tail(s))

\* C7: for declare -A x=([k]=$'BODY'), parse does not fail and returns
\* {k: v} where v is BODY with every numeric escape (backslash and 1 to 3
\* digits in base 8; \x, \u, \U and up to 2, 4, 8 hex digits in base 16)
\* replaced by the one character of that code.
AnsiCNumericEscapes ==
  (ParseDone("bash") /\ line \in AnsiCLines) =>
    /\ ret.kind = "ok"
    /\ ret.val = Single(Str(<<"k">>), NumericUnescaped(Body(line, 20)))

\* The declaration whose BODY is \8, which the octal pattern matches, has
\* ended in ValueError.
AnsiCOctalFails ==
  /\ ParseDone("bash")
  /\ line = AnsiCQuoted(Str(<<"\\", "8">>))
  /\ ret.kind = "ValueError"

RegistryNames == {"json", "simple", "bash"}

\* C8: ParserOption has three members; looking up "json", "simple" and
\* "bash" gives three different members, each with the parser class whose
\* get_name() is the name looked up; looking up any other name raises and
\* gives no member.
RegistryLookup ==
  /\ Len(ParserOption) = 3
  /\ \A a, b \in RegistryNames :
       a # b => /\ Lookup(a).kind = "ok" /\ Lookup(b).kind = "ok"
                /\ Lookup(a).val # Lookup(b).val
                /\ Lookup(a).val.parser_class # Lookup(b).val.parser_class
  /\ (task = "select" /\ pc = "done") =>
       IF format \in RegistryNames
       THEN /\ ret.kind = "ok"
            /\ get_name(ret.val.parser_class) = format
       ELSE ret.kind = "ValueError"

\* "bash" has been looked up and BashParser selected.
RegistryFindsBash ==
  /\ task = "select" /\ pc = "done" /\ format = "bash"
  /\ ret.kind = "ok" /\ ret.val.parser_class = "BashParser"

\* The end of the groups "[" key "]" "=" value that start at the i-th token:
\* the number of the first token that is not part of one.
RECURSIVE GroupsEnd(_, _)
GroupsEnd(toks, i) ==
  IF /\ i + 4 <= Len(toks)
     /\ toks[i] = Str(<<"[">>) /\ toks[i + 2] = Str(<<"]">>) /\ toks[i + 3] = Str(<<"=">>)
  THEN GroupsEnd(toks, i + 5)
  ELSE i

\* The tokens are declare or typeset, "-", "A", a name, "=", "(", groups,
\* and ")".
IsDeclaration(toks) ==
  /\ Len(toks) >= 7
  /\ toks[1] \in {Str(<<"d", "e", "c", "l", "a", "r", "e">>), Str(<<"t", "y", "p", "e", "s", "e", "t">>)}
  /\ toks[2] = Str(<<"-">>) /\ toks[3] = Str(<<"A">>)
  /\ toks[5] = Str(<<"=">>) /\ toks[6] = Str(<<"(">>)
  /\ GroupsEnd(toks, 7) <= Len(toks)
  /\ toks[GroupsEnd(toks, 7)] = Str(<<")">>)

\* The record of the groups between the 7th token and the end-th: the
\* unquoted key and value of each, in order, the last of equal keys winning.
GroupsRecord(toks, end) ==
  DictFrom([g \in 1..((end - 7) \div 5) |->
              <<unquote(toks[5 * g + 3]).val, unquote(toks[5 * g + 6]).val>>],
           <<>>)

\* C9: BashParser.parse returns a record only for the tokens declare or
\* typeset, "-", "A", a name, "=", "(", groups "[" key "]" "=" value, ")";
\* it raises ValueError for every other line, the line that ends before the
\* ")" included; the record maps each key to the unquoted value of its last
\* group.
BashTokenMachine ==
  (ParseDone("bash") /\ line \in BashLines) =>
    IF IsDeclaration(Tokens(line, 1).toks)
    THEN /\ ret.kind = "ok"
         /\ DictEq(ret.val,
                   GroupsRecord(Tokens(line, 1).toks,
                                GroupsEnd(Tokens(line, 1).toks, 7)))
    ELSE ret.kind = "ValueError"

\* The line that ends after "]=" has ended in IndexError.
BashTokenMachineIndexError ==
  /\ ParseDone("bash")
  /\ line = Str(<<"d", "e", "c", "l", "a", "r", "e", " ", "-", "A", " ", "x", "=", "(", "[", "k", "]", "=">>)
  /\ ret.kind = "IndexError"

\* C10: there are never more than max_workers threads and all are daemon
\* threads; a step starts at most one thread, and only the step of
\* _adjust_thread_count that failed to take a permit and counted fewer than
\* max_workers threads; the call that takes a permit returns with the
\* threads it found.
PoolBound ==
  /\ [](/\ Len(threads) <= MaxWorkers
        /\ \A t \in 1..Len(threads) : threads[t].daemon)
  /\ [][/\ Len(threads) <= Len(threads') /\ Len(threads') <= Len(threads) + 1
        /\ Len(threads') = Len(threads) + 1 =>
             /\ submit_pc = "count" /\ submit_pc' = "idle"
             /\ Len(threads) < MaxWorkers
             /\ threads'[Len(threads')].daemon
        /\ (submit_pc = "adjust" /\ idle_semaphore > 0) =>
             Len(threads') = Len(threads)
        /\ (submit_pc = "adjust" /\ idle_semaphore > 0 /\ submit_pc' # "adjust") =>
             submit_pc' = "idle" /\ idle_semaphore' = idle_semaphore - 1
        /\ (submit_pc = "count" /\ Len(threads) >= MaxWorkers) =>
             Len(threads') = Len(threads)]_vars

\* Every submit() has been made and no worker has taken work, so that no
\* permit was ever released: the calls after the first max_workers found the
\* pool full and started nothing.
PoolFull ==
  /\ submitted = MaxSubmits /\ submit_pc = "idle"
  /\ Len(work_queue) = MaxSubmits
  /\ Len(threads) = MaxWorkers
  /\ idle_semaphore = 0

====
